---------------------------- MODULE Spec2Model ----------------------------
(***************************************************************************)
(* A model of the Glicko rating engine (src/src/glicko/glicko.py), its     *)
(* value types (src/src/glicko/models.py) and the period loop that drives  *)
(* it (src/example/example.py).                                            *)
(*                                                                         *)
(* Python floats are modelled as binary floating point numbers with a      *)
(* significand of MantBits bits, an unbounded exponent and IEEE-754        *)
(* round-to-nearest-even after every operation.  Every arithmetic          *)
(* expression of the source is evaluated operation by operation in the     *)
(* order Python evaluates it, so rounding (and what depends on it: the     *)
(* order of a summation, 1 + tiny = 1) is part of the model.               *)
(***************************************************************************)
EXTENDS Integers, Sequences, FiniteSets, TLC

(***************************************************************************)
(* Bounds of the model.                                                    *)
(***************************************************************************)
\* bits of a float's significand (a double has 53)
MantBits == 11
\* Match objects ingested in one run of the period loop
MaxMatches == 2
\* rating periods in one run of the period loop
MaxPeriods == 2
\* longest result string handed to Match(...)
MaxLen == 4
\* longest list of matches update_all_players is applied to as a function
BatchLen == 3

(***************************************************************************)
(* Floats.  A float is [m |-> significand, x |-> exponent], value m * 2^x, *)
(* with 2^(MantBits-1) <= |m| < 2^MantBits, or Zero.  Inf is float("inf"). *)
(***************************************************************************)
Zero == [m |-> 0, x |-> 0]

Inf == [m |-> 0, x |-> 1]

Abs(n) == IF n < 0 THEN -n ELSE n

\* the k in lo+1 .. hi with 2^(k-1) <= n < 2^k, given 2^lo <= n < 2^hi
RECURSIVE BitLenIn(_, _, _)
BitLenStep(n, lo, hi, mid) ==
    IF n < 2^mid THEN BitLenIn(n, lo, mid) ELSE BitLenIn(n, mid, hi)

BitLenIn(n, lo, hi) ==
    IF hi - lo = 1 THEN hi ELSE BitLenStep(n, lo, hi, (lo + hi) \div 2)

\* number of bits of n, 1 <= n < 2^30
BitLen(n) == BitLenIn(n, 0, 30)

\* the significand q has become 2^MantBits by rounding up: renormalise
Carry(q, sgn, x) ==
    IF q = 2^MantBits
    THEN [m |-> sgn * 2^(MantBits - 1), x |-> x + 1]
    ELSE [m |-> sgn * q, x |-> x]

\* q + r / (2 * half) to the nearest integer, ties to even; sticky says
\* that the exact value lies strictly above
RoundShift(q, r, half, sgn, x, sticky) ==
    Carry(IF r > half \/ (r = half /\ (sticky \/ q % 2 = 1)) THEN q + 1 ELSE q,
          sgn, x)

\* a has len bits
RoundBits(a, len, sgn, x, sticky) ==
    IF len <= MantBits
    THEN [m |-> sgn * a * 2^(MantBits - len), x |-> x - (MantBits - len)]
    ELSE RoundShift(a \div 2^(len - MantBits), a % 2^(len - MantBits),
                    2^(len - MantBits - 1), sgn, x + (len - MantBits), sticky)

\* the float nearest to n * 2^x, ties to even (IEEE-754 round-to-nearest);
\* sticky says that the exact value lies strictly between |n| * 2^x and
\* (|n| + 1) * 2^x
RoundSticky(n, x, sticky) ==
    IF n = 0 THEN Zero
    ELSE RoundBits(Abs(n), BitLen(Abs(n)), IF n < 0 THEN -1 ELSE 1, x, sticky)

Round(n, x) == RoundSticky(n, x, FALSE)

\* float(n) of an int
FromInt(n) == Round(n, 0)

FNeg(a) == [m |-> -a.m, x |-> a.x]

\* a * b
FMul(a, b) == Round(a.m * b.m, a.x + b.x)

DivRound(num, den, sgn, x) ==
    RoundSticky(sgn * (num \div den), x, num % den # 0)

\* a / b for b # 0 (Python raises ZeroDivisionError for b = 0, which no
\* input of this model reaches); x / inf = 0.0
FDiv(a, b) ==
    IF b = Inf \/ a.m = 0 THEN Zero
    ELSE DivRound(Abs(a.m) * 2^(MantBits + 1), Abs(b.m),
                  IF (a.m < 0) = (b.m < 0) THEN 1 ELSE -1,
                  a.x - b.x - (MantBits + 1))

\* hi + lo for hi.x >= lo.x: the exact sum, rounded once.  An operand more
\* than MantBits + 1 binary places below the other is less than a quarter of
\* its unit in the last place and is absorbed.
AddAligned(hi, lo) ==
    IF hi.x - lo.x > MantBits + 1 THEN hi
    ELSE Round(hi.m * 2^(hi.x - lo.x) + lo.m, lo.x)

\* a + b
FAdd(a, b) ==
    IF a.m = 0 THEN b
    ELSE IF b.m = 0 THEN a
    ELSE IF a.x >= b.x THEN AddAligned(a, b) ELSE AddAligned(b, a)

\* a - b
FSub(a, b) == FAdd(a, FNeg(b))

\* a < b
FLt(a, b) == FSub(a, b).m < 0

\* a <= b
FLe(a, b) == ~FLt(b, a)

\* Python's min(a, b): b if b < a else a
FMin(a, b) == IF FLt(b, a) THEN b ELSE a

\* floor(sqrt(n)) by bisection on lo <= sqrt(n) < hi
RECURSIVE ISqrtIn(_, _, _)
ISqrtStep(n, lo, hi, mid) ==
    IF mid * mid <= n THEN ISqrtIn(n, mid, hi) ELSE ISqrtIn(n, lo, mid)

ISqrtIn(n, lo, hi) ==
    IF hi - lo <= 1 THEN lo ELSE ISqrtStep(n, lo, hi, (lo + hi) \div 2)

SqrtRound(n, s, x) == RoundSticky(s, x, s * s # n)

\* sqrt(n * 2^(2 * x)) for 2^(2 * MantBits) <= n < 2^(2 * MantBits + 2)
SqrtScaled(n, x) == SqrtRound(n, ISqrtIn(n, 2^MantBits, 2^(MantBits + 1)), x)

\* math.sqrt(a), a >= 0, correctly rounded
FSqrt(a) ==
    IF a.m = 0 THEN Zero
    ELSE IF (a.x - (MantBits + 1)) % 2 = 0
         THEN SqrtScaled(a.m * 2^(MantBits + 1), (a.x - (MantBits + 1)) \div 2)
         ELSE SqrtScaled(a.m * 2^(MantBits + 2), (a.x - (MantBits + 2)) \div 2)

(***************************************************************************)
(* 10 ** y (glicko.py:45), for |y| < 2^MantBits.  y * log2(10) is taken in *)
(* fixed point with PowFrac fraction bits; its integer part is the         *)
(* exponent of the result and 2^fraction is the product of the 2^(2^-k) of *)
(* the fraction's one bits.                                                *)
(***************************************************************************)
PowFrac == 14

\* round(log2(10) * 2^PowFrac)
Log2Of10 == 54426

\* round(2^(2^-k) * 2^PowFrac), k = 1 .. PowFrac
Pow2Root == << 23170, 19484, 17867, 17109, 16743, 16562, 16473,
               16428, 16406, 16395, 16390, 16387, 16385, 16385 >>

\* 2^(f / 2^PowFrac) * 2^PowFrac from the bits k .. PowFrac of f
RECURSIVE Pow2Frac(_, _, _)
Pow2Frac(f, k, acc) ==
    IF k > PowFrac THEN acc
    ELSE Pow2Frac(f, k + 1,
                  IF (f \div 2^(PowFrac - k)) % 2 = 1
                  THEN (acc * Pow2Root[k]) \div 2^PowFrac
                  ELSE acc)

\* 2^(t / 2^PowFrac)
Pow2Fixed(t) ==
    Round(Pow2Frac(t % 2^PowFrac, 1, 2^PowFrac), (t \div 2^PowFrac) - PowFrac)

\* floor(p * 2^x)
ShiftFloor(p, x) ==
    IF -x > 30 THEN (IF p < 0 THEN -1 ELSE 0)
    ELSE IF x <= 0 THEN p \div 2^(-x)
    ELSE p * 2^x

Pow10(y) ==
    IF y.m = 0 THEN FromInt(1)
    ELSE Pow2Fixed(ShiftFloor(y.m * Log2Of10, y.x))

(***************************************************************************)
(* models.py: PlayerRating and Match.                                      *)
(***************************************************************************)
\* the default rating and rating deviation of PlayerRating()
DefaultRating == 1500

DefaultRd == 350

\* PlayerRating(rating, rd): a dataclass without __post_init__; it stores
\* its two fields as they are given
PlayerRating(rating, rd) == [rating |-> rating, rd |-> rd]

\* A string is a sequence of one-character strings.
Digits == {"0", "1", "2"}

Dash == "-"

\* the positions at which \d+ can end when it starts after position i of s
RECURSIVE DigitsPlusFrom(_, _)
DigitsPlusFrom(s, i) ==
    IF i + 1 <= Len(s) /\ s[i + 1] \in Digits
    THEN {i + 1} \cup DigitsPlusFrom(s, i + 1)
    ELSE {}

\* re.match(r"\d+-\d+", s) is not None: the pattern anchored at the start
\* only, whatever follows it
PrefixMatch(s) ==
    \E i \in DigitsPlusFrom(s, 0) :
        /\ i + 1 <= Len(s)
        /\ s[i + 1] = Dash
        /\ DigitsPlusFrom(s, i + 1) # {}

\* re.fullmatch(r"\d+-\d+", s) is not None
FullMatch(s) ==
    \E i \in DigitsPlusFrom(s, 0) :
        /\ i + 1 <= Len(s)
        /\ s[i + 1] = Dash
        /\ Len(s) \in DigitsPlusFrom(s, i + 1)

\* Match.__post_init__ raises ValueError
PostInitRaises(result) == ~FullMatch(result)

\* Match(player1, player2, result), once __post_init__ has passed
Match(player1, player2, result) ==
    [player1 |-> player1, player2 |-> player2, result |-> result]

\* s.split("-"): the pieces of s between its dashes
RECURSIVE Split(_)
Split(s) ==
    IF \A i \in 1..Len(s) : s[i] # Dash THEN << s >>
    ELSE LET i == CHOOSE j \in 1..Len(s) :
                      s[j] = Dash /\ \A k \in 1..(j - 1) : s[k] # Dash
         IN  << SubSeq(s, 1, i - 1) >> \o Split(SubSeq(s, i + 1, Len(s)))

DigitValue(c) == CASE c = "0" -> 0 [] c = "1" -> 1 [] c = "2" -> 2

\* int(s) of a string of digits
RECURSIVE ToInt(_)
ToInt(s) ==
    IF Len(s) = 0 THEN 0
    ELSE 10 * ToInt(SubSeq(s, 1, Len(s) - 1)) + DigitValue(s[Len(s)])

\* The optional argument of Match.score: None is << >>, a name p is << p >>.
None == << >>

Some(p) == << p >>

\* Python's truth value of the argument `player`: None and "" are false
Truthy(player) == player # None /\ player[1] # ""

\* Match.score raises ValueError (models.py:51-52)
ScoreRaises(match, player) ==
    Truthy(player) /\ player[1] \notin {match.player1, match.player2}

One == FromInt(1)

Half == Round(1, -1)

\* the result of Match.score from player1's side (models.py:54-59)
player1_result(player1_score, player2_score) ==
    IF player1_score > player2_score THEN One
    ELSE IF player1_score < player2_score THEN Zero
    ELSE Half

split_result(parts) == player1_result(ToInt(parts[1]), ToInt(parts[2]))

\* Match.score(player) when it does not raise (models.py:54-63)
score(match, player) ==
    IF Truthy(player) /\ player[1] = match.player2
    THEN FSub(One, split_result(Split(match.result)))
    ELSE split_result(Split(match.result))

(***************************************************************************)
(* glicko.py: the rating algebra.                                          *)
(***************************************************************************)
\* round(math.log(10) * 2^28) and round(math.pi * 2^28)
Ln10Scaled == 618095479

PiScaled == 843314857

MathLog10 == Round(Ln10Scaled, -28)

MathPi == Round(PiScaled, -28)

\* Q = math.log(10) / 400
Q == FDiv(MathLog10, FromInt(400))

\* C = 50
C == 50

\* the ceiling of the rating deviation in update_player
MaxRd == 350

\* x ** 2
Sq(a) == FMul(a, a)

\* g(rd) = 1.0 / math.sqrt(1 + (3 * Q**2 * rd**2) / math.pi**2)
g(rd) ==
    FDiv(One,
         FSqrt(FAdd(One,
                    FDiv(FMul(FMul(FromInt(3), Sq(Q)), Sq(rd)), Sq(MathPi)))))

\* e(player_rating, opponent) =
\*   1 / (1 + 10 ** (-g(opponent.rd) * (player_rating - opponent.rating) / 400.0))
e(player_rating, opponent) ==
    FDiv(One,
         FAdd(One,
              Pow10(FDiv(FMul(FNeg(g(opponent.rd)),
                              FSub(player_rating, opponent.rating)),
                         FromInt(400)))))

\* Q**2 * g_rd_opponent**2 * e_val * (1 - e_val)
d2_inv_term(g_rd_opponent, e_val) ==
    FMul(FMul(FMul(Sq(Q), Sq(g_rd_opponent)), e_val), FSub(One, e_val))

\* the loop of d_squared: d2_inv after the opponents i .. Len
RECURSIVE d2_inv_loop(_, _, _, _)
d2_inv_loop(player_rating, opponents_rating, i, d2_inv) ==
    IF i > Len(opponents_rating) THEN d2_inv
    ELSE d2_inv_loop(player_rating, opponents_rating, i + 1,
             FAdd(d2_inv,
                  d2_inv_term(g(opponents_rating[i].rd),
                              e(player_rating, opponents_rating[i]))))

d2_inv_sum(player_rating, opponents_rating) ==
    d2_inv_loop(player_rating, opponents_rating, 1, Zero)

\* 1.0 / d2_inv if d2_inv != 0 else 1.0: a finite variance in place of the
\* infinite one
d2_of_finite(d2_inv) == IF d2_inv # Zero THEN FDiv(One, d2_inv) ELSE One

\* 1.0 / d2_inv if d2_inv != 0 else float("inf")
d2_of(d2_inv) == IF d2_inv # Zero THEN FDiv(One, d2_inv) ELSE Inf

d_squared(player_rating, opponents_rating) ==
    d2_of(d2_inv_sum(player_rating, opponents_rating))

\* opponent_data is a sequence of << opponent PlayerRating, score >>.
\* opponents_rating = [rating for rating, _ in opponent_data]
opponents_of(opponent_data) ==
    [i \in 1..Len(opponent_data) |-> opponent_data[i][1]]

\* g_rd_opponent * (score - e_val)
delta_term(g_rd_opponent, score_i, e_val) ==
    FMul(g_rd_opponent, FSub(score_i, e_val))

\* the loop of update_player: delta_sum after the entries i .. Len
RECURSIVE delta_sum_loop(_, _, _, _)
delta_sum_loop(player, opponent_data, i, delta_sum) ==
    IF i > Len(opponent_data) THEN delta_sum
    ELSE delta_sum_loop(player, opponent_data, i + 1,
             FAdd(delta_sum,
                  delta_term(g(opponent_data[i][1].rd),
                             opponent_data[i][2],
                             e(player.rating, opponent_data[i][1]))))

delta_sum_of(player, opponent_data) ==
    delta_sum_loop(player, opponent_data, 1, Zero)

\* update_player without games (glicko.py:83-85)
idle_update(player) ==
    PlayerRating(player.rating,
                 FMin(FSqrt(FAdd(Sq(player.rd), FromInt(C * C))), FromInt(MaxRd)))

\* 1 / player.rd**2 + 1 / d2
inv_var_of(player, d2) == FAdd(FDiv(One, Sq(player.rd)), FDiv(One, d2))

\* new_r = player.rating + pre_factor * delta_sum, pre_factor = Q / inv_var;
\* new_rd = math.sqrt(1 / inv_var)
played_result(player, inv_var, delta_sum) ==
    PlayerRating(FAdd(player.rating, FMul(FDiv(Q, inv_var), delta_sum)),
                 FSqrt(FDiv(One, inv_var)))

\* update_player with games (glicko.py:87-101); player.rd # 0
played_update(player, opponent_data) ==
    played_result(player,
                  inv_var_of(player,
                             d_squared(player.rating, opponents_of(opponent_data))),
                  delta_sum_of(player, opponent_data))

update_player(player, opponent_data) ==
    IF opponent_data = << >>
    THEN idle_update(player)
    ELSE played_update(player, opponent_data)

(***************************************************************************)
(* Dictionaries are functions on their key sets.                           *)
(***************************************************************************)
EmptyDict == [n \in {} |-> n]

DictSet(d, k, v) == [n \in DOMAIN d \cup {k} |-> IF n = k THEN v ELSE d[n]]

\* player_ratings.get(key, PlayerRating()): a missing key reads as a player
\* with the default rating
getitem_default(player_ratings, key) ==
    IF key \in DOMAIN player_ratings THEN Some(player_ratings[key])
    ELSE Some(PlayerRating(FromInt(DefaultRating), FromInt(DefaultRd)))

\* player_ratings[key] (glicko.py:124-125): None for a KeyError, else Some
getitem(player_ratings, key) ==
    IF key \in DOMAIN player_ratings THEN Some(player_ratings[key]) ELSE None

\* one pass of the loop over match_results (glicko.py:123-127), both lookups
\* having succeeded
collect(games_by_player, player_ratings, match) ==
    [ [games_by_player EXCEPT ![match.player1] =
          Append(@, << getitem(player_ratings, match.player2)[1],
                       score(match, None) >>)]
      EXCEPT ![match.player2] =
          Append(@, << getitem(player_ratings, match.player1)[1],
                       FSub(One, score(match, None)) >>) ]

\* a comprehension over the players that have games only
keys_with_games(player_ratings, games_by_player) ==
    { n \in DOMAIN player_ratings : games_by_player[n] # << >> }

\* the keys the comprehension iterates over (glicko.py:131)
comprehension_keys(player_ratings, games_by_player) == DOMAIN player_ratings

\* player_ratings[player_name] = rating: the entry written into the argument
store_in_place(player_ratings, new_ratings, player_name, rating) ==
    [player_ratings |-> [player_ratings EXCEPT ![player_name] = rating],
     new_ratings    |-> DictSet(new_ratings, player_name, rating)]

\* the two dictionaries after the comprehension has computed one entry
\* (glicko.py:129-132): the entry goes to the new dictionary, the argument
\* is left alone
comprehension_step(player_ratings, new_ratings, player_name, rating) ==
    [player_ratings |-> player_ratings,
     new_ratings    |-> DictSet(new_ratings, player_name, rating)]

(***************************************************************************)
(* update_all_players as a function of its two arguments.                  *)
(***************************************************************************)
RECURSIVE games_loop(_, _, _, _)
games_loop(games_by_player, player_ratings, match_results, i) ==
    IF i > Len(match_results) THEN games_by_player
    ELSE games_loop(collect(games_by_player, player_ratings, match_results[i]),
                    player_ratings, match_results, i + 1)

\* a KeyError is raised by the loop
raises_key_error(player_ratings, match_results) ==
    \E i \in 1..Len(match_results) :
        \/ getitem(player_ratings, match_results[i].player1) = None
        \/ getitem(player_ratings, match_results[i].player2) = None

(***************************************************************************)
(* Inputs.                                                                 *)
(***************************************************************************)
\* the players of the table, and a player no table holds
Players == {"a", "b", "c"}

Unknown == "z"

Names == Players \cup {Unknown}

\* the tables the caller starts from, as the test builds its own
\* (test_glicko.py:13-18): PlayerRating(rating, rd) of ints
EntrantsA == { PlayerRating(FromInt(1500), FromInt(350)),
               PlayerRating(FromInt(9000), FromInt(7)),
               PlayerRating(FromInt(9000), FromInt(400)) }

InitialTables ==
    { [n \in Players |->
          CASE n = "a" -> pa
            [] n = "b" -> PlayerRating(FromInt(1400), FromInt(30))
            [] n = "c" -> PlayerRating(FromInt(1550), FromInt(100))]
      : pa \in EntrantsA }

\* the rows extract_matches turns into Match objects
Rows ==
    { << "a", "b", << "1", "-", "0" >> >>,
      << "a", "b", << "1", "-", "1" >> >>,
      << "a", "b", << "0", "-", "1" >> >>,
      << "a", "c", << "1", "-", "0" >> >>,
      << "a", Unknown, << "1", "-", "0" >> >>,
      << Unknown, "a", << "1", "-", "0" >> >> }

\* [Match(home, away, result) for home, away, result in ...]
\* (rating_engine.py:52)
MatchPool ==
    { Match(r[1], r[2], r[3]) : r \in { w \in Rows : ~PostInitRaises(w[3]) } }

MatchLists(n) == UNION { [1..k -> MatchPool] : k \in 0..n }

\* the arguments Match(...) and Match.score(...) are tried with
MatchNames == {"a", "b", ""}

Alphabet == Digits \cup {Dash, "t"}

Strings == UNION { [1..k -> Alphabet] : k \in 0..MaxLen }

Perspectives == {None} \cup { Some(p) : p \in MatchNames \cup {"c"} }

(***************************************************************************)
(* State.                                                                  *)
(***************************************************************************)
VARIABLES
    player_ratings,   \* the caller's table (example.py:22, 28)
    entry_ratings,    \* the table as it was when the running call began
    match_results,    \* the matches of the running call
    games_by_player,  \* glicko.py:122
    new_ratings,      \* the dictionary the comprehension builds
    idx,              \* the match the loop of glicko.py:123 is at
    pc,               \* where the call is: "loop", "collect", "update", "raised",
                      \* "batch", "batch_done"; "off" when no call is modelled
    period,           \* periods applied so far
    ingested,         \* Match objects built so far
    exc,              \* the exception that ended the run
    m_pc,             \* a Match under construction or scoring
    m_match,          \* its arguments
    m_player,         \* the argument of Match.score
    m_out             \* what Match.score returned

engine_vars == << player_ratings, entry_ratings, match_results, games_by_player,
                  new_ratings, idx, pc, period, ingested >>

match_vars == << m_pc, m_match, m_player, m_out >>

vars == << engine_vars, exc, match_vars >>

NoGames == [n \in Names |-> << >>]

EngineInit ==
    /\ player_ratings \in InitialTables
    /\ entry_ratings = player_ratings
    /\ match_results = << >>
    /\ games_by_player = NoGames
    /\ new_ratings = EmptyDict
    /\ idx = 1
    /\ pc = "loop"
    /\ period = 0
    /\ ingested = 0

MatchOff ==
    /\ m_pc = "off"
    /\ m_match = Match("a", "b", << >>)
    /\ m_player = None
    /\ m_out = None

Init == EngineInit /\ exc = "" /\ MatchOff

(***************************************************************************)
(* The period loop (example.py:26-29) and update_all_players, step by      *)
(* step (glicko.py:121-132).                                               *)
(***************************************************************************)
\* player_ratings = update_all_players(player_ratings, period_matches):
\* the call is entered with the matches of the period
Call(period_matches) ==
    /\ pc = "loop"
    /\ period < MaxPeriods
    /\ ingested + Len(period_matches) <= MaxMatches
    /\ ingested' = ingested + Len(period_matches)
    /\ match_results' = period_matches
    /\ entry_ratings' = player_ratings
    /\ games_by_player' = NoGames
    /\ new_ratings' = EmptyDict
    /\ idx' = 1
    /\ pc' = IF period_matches = << >> THEN "update" ELSE "collect"
    /\ UNCHANGED << player_ratings, period, exc, match_vars >>

\* one pass of the loop over match_results
Collect ==
    /\ pc = "collect"
    /\ getitem(player_ratings, match_results[idx].player1) # None
    /\ getitem(player_ratings, match_results[idx].player2) # None
    /\ games_by_player' = collect(games_by_player, player_ratings, match_results[idx])
    /\ idx' = idx + 1
    /\ pc' = IF idx = Len(match_results) THEN "update" ELSE "collect"
    /\ UNCHANGED << player_ratings, entry_ratings, match_results, new_ratings,
                    period, ingested, exc, match_vars >>

\* a lookup of the loop raises KeyError, which nothing catches
CollectRaises ==
    /\ pc = "collect"
    /\ \/ getitem(player_ratings, match_results[idx].player1) = None
       \/ getitem(player_ratings, match_results[idx].player2) = None
    /\ pc' = "raised"
    /\ exc' = "KeyError"
    /\ UNCHANGED << player_ratings, entry_ratings, match_results, games_by_player,
                    new_ratings, idx, period, ingested, match_vars >>

\* the comprehension computes the entry of one player; the order in which
\* a dictionary yields its keys is the order they were inserted in, which the
\* table does not record: any order
UpdateOne(player_name) ==
    /\ pc = "update"
    /\ player_name \in comprehension_keys(player_ratings, games_by_player)
    /\ player_name \notin DOMAIN new_ratings
    /\ \E after \in { comprehension_step(player_ratings, new_ratings, player_name,
                          update_player(player_ratings[player_name],
                                        games_by_player[player_name])) } :
           /\ player_ratings' = after.player_ratings
           /\ new_ratings' = after.new_ratings
    /\ UNCHANGED << entry_ratings, match_results, games_by_player, idx, pc,
                    period, ingested, exc, match_vars >>

\* the comprehension is complete: the call is at its return
Returning ==
    /\ pc = "update"
    /\ comprehension_keys(player_ratings, games_by_player) \subseteq DOMAIN new_ratings

\* the call returns and the caller binds the result (example.py:28)
Return ==
    /\ Returning
    /\ player_ratings' = new_ratings
    /\ entry_ratings' = new_ratings
    /\ period' = period + 1
    /\ pc' = "loop"
    /\ match_results' = << >>
    /\ games_by_player' = NoGames
    /\ new_ratings' = EmptyDict
    /\ idx' = 1
    /\ UNCHANGED << ingested, exc, match_vars >>

Next ==
    \/ \E period_matches \in MatchLists(MaxMatches) : Call(period_matches)
    \/ Collect
    \/ CollectRaises
    \/ \E player_name \in Players : UpdateOne(player_name)
    \/ Return

Spec == Init /\ [][Next]_vars

\* update_all_players(player_ratings, match_results), when it raises nothing
update_all_players(table, matches) ==
    LET games == games_loop(NoGames, table, matches, 1)
    IN  [player_name \in comprehension_keys(table, games) |->
            update_player(table[player_name], games[player_name])]

(***************************************************************************)
(* update_all_players applied as a function to a table and a list of       *)
(* matches.                                                                *)
(***************************************************************************)
BatchInit ==
    /\ player_ratings \in InitialTables
    /\ entry_ratings = player_ratings
    /\ match_results \in MatchLists(BatchLen)
    /\ games_by_player = NoGames
    /\ new_ratings = EmptyDict
    /\ idx = 1
    /\ pc = "batch"
    /\ period = 0
    /\ ingested = 0
    /\ exc = ""
    /\ MatchOff

BatchApply ==
    /\ pc = "batch"
    /\ ~raises_key_error(player_ratings, match_results)
    /\ new_ratings' = update_all_players(player_ratings, match_results)
    /\ pc' = "batch_done"
    /\ UNCHANGED << player_ratings, entry_ratings, match_results, games_by_player,
                    idx, period, ingested, exc, match_vars >>

BatchRaises ==
    /\ pc = "batch"
    /\ raises_key_error(player_ratings, match_results)
    /\ pc' = "raised"
    /\ exc' = "KeyError"
    /\ UNCHANGED << player_ratings, entry_ratings, match_results, games_by_player,
                    new_ratings, idx, period, ingested, match_vars >>

BatchNext == BatchApply \/ BatchRaises

SpecBatch == BatchInit /\ [][BatchNext]_vars

(***************************************************************************)
(* Match(...) and Match.score(...) on their own.                           *)
(***************************************************************************)
MatchInit ==
    /\ player_ratings = EmptyDict
    /\ entry_ratings = EmptyDict
    /\ match_results = << >>
    /\ games_by_player = NoGames
    /\ new_ratings = EmptyDict
    /\ idx = 1
    /\ pc = "off"
    /\ period = 0
    /\ ingested = 0
    /\ exc = ""
    /\ m_pc = "new"
    /\ m_match \in { Match(player1, player2, result) :
                        player1 \in MatchNames, player2 \in MatchNames,
                        result \in Strings }
    /\ m_player = None
    /\ m_out = None

\* Match(player1, player2, result) passes __post_init__
Construct ==
    /\ m_pc = "new"
    /\ ~PostInitRaises(m_match.result)
    /\ m_pc' = "constructed"
    /\ UNCHANGED << engine_vars, exc, m_match, m_player, m_out >>

\* __post_init__ raises ValueError (models.py:26-29)
ConstructRaises ==
    /\ m_pc = "new"
    /\ PostInitRaises(m_match.result)
    /\ m_pc' = "init_raised"
    /\ exc' = "ValueError"
    /\ UNCHANGED << engine_vars, m_match, m_player, m_out >>

\* match.score(player) returns
Score(player) ==
    /\ m_pc = "constructed"
    /\ ~ScoreRaises(m_match, player)
    /\ m_pc' = "scored"
    /\ m_player' = player
    /\ m_out' = Some(score(m_match, player))
    /\ UNCHANGED << engine_vars, exc, m_match >>

\* match.score(player) raises ValueError (models.py:51-52)
ScoreFails(player) ==
    /\ m_pc = "constructed"
    /\ ScoreRaises(m_match, player)
    /\ m_pc' = "score_raised"
    /\ m_player' = player
    /\ exc' = "ValueError"
    /\ UNCHANGED << engine_vars, m_match, m_out >>

MatchNext ==
    \/ Construct
    \/ ConstructRaises
    \/ \E player \in Perspectives : Score(player)
    \/ \E player \in Perspectives : ScoreFails(player)

SpecMatch == MatchInit /\ [][MatchNext]_vars

(***************************************************************************)
(* Properties of update_all_players.                                       *)
(***************************************************************************)
\* the matches of the running call that involve player n, among the first upto
Involving(n, upto) ==
    SelectSeq([i \in 1..upto |-> i],
              LAMBDA i : n \in {match_results[i].player1, match_results[i].player2})

OpponentOf(match, n) == IF match.player1 = n THEN match.player2 ELSE match.player1

\* player n is in a match of the running call
Played(n) == Involving(n, Len(match_results)) # << >>

\* the matches of the running call that name a player the entry table lacks
UnknownAt ==
    { i \in 1..Len(match_results) :
        \/ match_results[i].player1 \notin DOMAIN entry_ratings
        \/ match_results[i].player2 \notin DOMAIN entry_ratings }

\* matches reordered by a permutation of their positions
Reordered(matches, perm) == [i \in 1..Len(matches) |-> matches[perm[i]]]

\* C1: for a table and a list of matches whose participants are all keys of
\* the table, update_all_players returns the same table for every permutation
\* of the list.
C1_OrderIndependent ==
    pc = "batch_done" =>
        \A perm \in Permutations(1..Len(match_results)) :
            update_all_players(player_ratings, Reordered(match_results, perm))
                = new_ratings

\* C2: within one call, the caller's table stays as it was at entry; every
\* opponent rating collected for a player is the entry value of the opponent of
\* the corresponding match; every entry of the new dictionary is computed from
\* the entry value of the player and those collected games.
C2_EntrySnapshot ==
    pc \in {"collect", "update", "raised"} =>
        /\ player_ratings = entry_ratings
        /\ \A n \in Players :
              /\ Len(games_by_player[n]) = Len(Involving(n, idx - 1))
              /\ \A k \in 1..Len(games_by_player[n]) :
                    games_by_player[n][k][1] =
                        entry_ratings[OpponentOf(
                            match_results[Involving(n, idx - 1)[k]], n)]
        /\ \A n \in DOMAIN new_ratings :
              new_ratings[n] = update_player(entry_ratings[n], games_by_player[n])

\* a player still to be computed has a game against a player whose new
\* rating, different from the entry one, is already in the new dictionary
C2_Witness ==
    /\ pc = "update"
    /\ \E p \in DOMAIN new_ratings : \E q \in Players \ DOMAIN new_ratings :
          /\ new_ratings[p] # entry_ratings[p]
          /\ \E i \in 1..Len(match_results) :
                {match_results[i].player1, match_results[i].player2} = {p, q}

\* C3: when a match of the call names a player that is not a key of the
\* table, the call gets no further than the first such match, where it ends
\* with KeyError: it builds no entry of a new table, the caller's table stays
\* as it was, and the unknown player is a key of neither.  A call raises for
\* no other reason.
C3_UnknownPlayerFails ==
    /\ UnknownAt # {} =>
          /\ pc \in {"collect", "raised"}
          /\ \A i \in UnknownAt : idx <= i
          /\ pc = "raised" => exc = "KeyError" /\ idx \in UnknownAt
          /\ new_ratings = EmptyDict
          /\ player_ratings = entry_ratings
          /\ Unknown \notin DOMAIN player_ratings
    /\ pc = "raised" => UnknownAt # {}

\* the second period fails at its second match, after collecting the first
C3_Witness ==
    /\ pc = "raised"
    /\ exc = "KeyError"
    /\ period = 1
    /\ idx = 2

\* C4: a player without a match in the period keeps the rating and gets
\* rd' = min(sqrt(rd^2 + 2500), 350), which is at least the rd at entry and
\* at most 350.
C4_IdleGrowth ==
    Returning =>
        \A n \in Players :
            ~Played(n) =>
                /\ new_ratings[n].rating = entry_ratings[n].rating
                /\ new_ratings[n].rd =
                      FMin(FSqrt(FAdd(Sq(entry_ratings[n].rd), FromInt(2500))),
                           FromInt(350))
                /\ FLe(entry_ratings[n].rd, new_ratings[n].rd)
                /\ FLe(new_ratings[n].rd, FromInt(350))

\* C5: in every table, the caller's and the one a call builds, each rd is at
\* most 350.
C5_RdClamped ==
    /\ \A n \in DOMAIN player_ratings : FLe(player_ratings[n].rd, FromInt(350))
    /\ \A n \in DOMAIN new_ratings : FLe(new_ratings[n].rd, FromInt(350))

\* C6: the caller's table always has the players it started with as keys; at
\* the return of a call the new table has the keys of the entry table, and the
\* entry of each player is one idle update of the entry value when the player
\* is in no match of the call, one played update of it otherwise.
C6_OneUpdateEach ==
    /\ DOMAIN player_ratings = Players
    /\ Returning =>
          /\ DOMAIN new_ratings = DOMAIN entry_ratings
          /\ \A n \in DOMAIN entry_ratings :
                IF Played(n)
                THEN /\ games_by_player[n] # << >>
                     /\ new_ratings[n] =
                           played_update(entry_ratings[n], games_by_player[n])
                ELSE /\ games_by_player[n] = << >>
                     /\ new_ratings[n] = idle_update(entry_ratings[n])

\* the second period returns with a player who played and one who did not
C6_Witness ==
    /\ Returning
    /\ period = 1
    /\ \E p \in Players : \E q \in Players : Played(p) /\ ~Played(q)

\* C7: at the return of a call, a player who was in a match of the call has
\* an rd that is at most the rd at entry.
C7_PlayedRdShrinks ==
    Returning =>
        \A n \in Players :
            Played(n) => FLe(new_ratings[n].rd, entry_ratings[n].rd)

\* player n played in the running call and the sum d_squared accumulates for
\* n is exactly zero
Degenerate(n) ==
    /\ games_by_player[n] # << >>
    /\ d2_inv_sum(entry_ratings[n].rating, opponents_of(games_by_player[n])) = Zero

ExpectedInside(n) ==
    \A k \in 1..Len(games_by_player[n]) :
        /\ FLt(Zero, e(entry_ratings[n].rating, games_by_player[n][k][1]))
        /\ FLt(e(entry_ratings[n].rating, games_by_player[n][k][1]), One)

\* C11: at the return of a call, a player with rd > 0 who played and whose
\* expected scores all lie strictly between 0 and 1 has a rating strictly
\* above the entry rating after winning every match, strictly below it after
\* losing every match.
C11_DecisiveMovesRating ==
    Returning =>
        \A n \in Players :
            (/\ Played(n)
             /\ FLt(Zero, entry_ratings[n].rd)
             /\ ExpectedInside(n)) =>
                /\ (\A k \in 1..Len(games_by_player[n]) :
                        games_by_player[n][k][2] = One)
                   => FLt(entry_ratings[n].rating, new_ratings[n].rating)
                /\ (\A k \in 1..Len(games_by_player[n]) :
                        games_by_player[n][k][2] = Zero)
                   => FLt(new_ratings[n].rating, entry_ratings[n].rating)

(***************************************************************************)
(* Properties of Match.                                                    *)
(***************************************************************************)
\* s is digits, one dash, digits, with a digit on each side
IsScoreLine(s) ==
    \E k \in 2..(Len(s) - 1) :
        /\ s[k] = Dash
        /\ \A i \in (1..Len(s)) \ {k} : s[i] \in Digits

\* the score of the side `side` of a match, from the two integers of its result
SideScore(match, side) ==
    IF ToInt(Split(match.result)[1]) = ToInt(Split(match.result)[2]) THEN Half
    ELSE IF (side = match.player1) =
            (ToInt(Split(match.result)[1]) > ToInt(Split(match.result)[2]))
         THEN One
         ELSE Zero

\* C8: when Match.score returns, the argument is None or one of the two
\* players of the match, and the value is 1 if the named side won, 0 if it
\* lost, 1/2 if the two integers are equal, the named side being player1 for
\* None.
C8_ScoreSemantics ==
    m_pc = "scored" =>
        /\ m_player = None \/ m_player[1] \in {m_match.player1, m_match.player2}
        /\ m_match.player1 # m_match.player2 =>
              m_out = Some(SideScore(m_match,
                                     IF m_player = None THEN m_match.player1
                                     ELSE m_player[1]))

\* C9: Match(...) is constructed exactly when its result is digits, a dash,
\* digits; a constructed Match has a result that splits at its dashes into
\* exactly two non-empty strings of digits.
C9_ConstructionValidates ==
    /\ m_pc = "init_raised" => ~IsScoreLine(m_match.result) /\ exc = "ValueError"
    /\ m_pc \in {"constructed", "scored", "score_raised"} =>
          /\ IsScoreLine(m_match.result)
          /\ Len(Split(m_match.result)) = 2
          /\ \A k \in 1..2 :
                /\ Split(m_match.result)[k] # << >>
                /\ \A i \in 1..Len(Split(m_match.result)[k]) :
                      Split(m_match.result)[k][i] \in Digits

\* the construction of a Match with the result "-1-2" has raised
C9_Witness ==
    /\ m_pc = "init_raised"
    /\ m_match.result = << "-", "1", "-", "2" >>

=============================================================================
